---- MODULE Spec2Model ----
(***************************************************************************)
(* The WebSocket RPC proxy of wasminspect (crates/debugger-server,         *)
(* debugger_proxy.rs): one session between a remote client, the transport  *)
(* that feeds the inbound channel, and the executor thread that handles    *)
(* requests and runs exported functions, calling back to the client for    *)
(* every imported function.                                                *)
(***************************************************************************)
EXTENDS Integers, Sequences, FiniteSets, TLC

(***************************************************************************)
(* Bounds of the model.                                                    *)
(***************************************************************************)
\* messages the client sends in one session
MaxMsgs == 4
\* messages that may wait in the inbound channel at once
MaxQueue == 1

(***************************************************************************)
(* Values.  A JSNumber (f64) is modelled by an integer h that stands for   *)
(* the number h/2, so that the integer casts truncate and the float casts  *)
(* encode.  A WasmValue is [ty, v]; v is the signed integer for i32/i64    *)
(* and the IEEE-754 fields <<sign, biased exponent, fraction...>> for      *)
(* f32/f64 (the f64 fraction is split into its high 20 and low 32 bits).   *)
(***************************************************************************)
JSNums == {-3, 5}

Abs(n) == IF n < 0 THEN -n ELSE n

RECURSIVE Pow2(_)
Pow2(n) == IF n = 0 THEN 1 ELSE 2 * Pow2(n - 1)

RECURSIVE Log2(_)
Log2(n) == IF n <= 1 THEN 0 ELSE 1 + Log2(n \div 2)

\* `value as i32`, `value as i64`: truncation toward zero of h/2
TruncHalf(h) == IF h >= 0 THEN h \div 2 ELSE -((-h) \div 2)

\* (value as f32).to_le_bytes() read back as u32, by fields
F32Bits(h) ==
    IF h = 0 THEN <<0, 0, 0>>
    ELSE LET a == Abs(h)
             k == Log2(a)
         IN  <<IF h < 0 THEN 1 ELSE 0, k - 1 + 127, (a - Pow2(k)) * Pow2(23 - k)>>

\* (value as f64).to_le_bytes() read back as u64, by fields
F64Bits(h) ==
    IF h = 0 THEN <<0, 0, 0, 0>>
    ELSE LET a == Abs(h)
             k == Log2(a)
         IN  <<IF h < 0 THEN 1 ELSE 0, k - 1 + 1023, (a - Pow2(k)) * Pow2(20 - k), 0>>

from_js_number(value, ty) ==
    CASE ty = "i32" -> [ty |-> "i32", v |-> <<TruncHalf(value)>>]
      [] ty = "i64" -> [ty |-> "i64", v |-> <<TruncHalf(value)>>]
      [] ty = "f32" -> [ty |-> "f32", v |-> F32Bits(value)]
      [] ty = "f64" -> [ty |-> "f64", v |-> F64Bits(value)]

\* vm value -> rpc::WasmValue {type, value}
from_vm_wasm_value(value) == [type |-> value.ty, value |-> value.v]

Min(a, b) == IF a < b THEN a ELSE b

\* iter().zip(tys).map(from_js_number).collect(): stops at the shorter one
ZipCoerce(nums, tys) ==
    [i \in 1..Min(Len(nums), Len(tys)) |-> from_js_number(nums[i], tys[i])]

MapWire(values) == [i \in 1..Len(values) |-> from_vm_wasm_value(values[i])]

(***************************************************************************)
(* The module binaries a client may send with Init.  A binary is named by  *)
(* a string; ModuleOf gives what the parsers read from it: whether it      *)
(* decodes, its import and export sections in order, whether it defines a  *)
(* memory, and the bodies of its functions as the trace of instructions    *)
(* that matter to the proxy: a call of an import (host), the entry of a    *)
(* frame of a defined function (enter, where a breakpoint is checked) and  *)
(* unreachable.                                                            *)
(***************************************************************************)
I32(n) == [ty |-> "i32", v |-> <<n>>]

FuncImport(m, f, ps, rs) ==
    [module |-> m, field |-> f, kind |-> "func", params |-> ps, results |-> rs]

GlobalImport(m, f) ==
    [module |-> m, field |-> f, kind |-> "global", params |-> <<>>, results |-> <<>>]

Host(i, as) == [op |-> "host", imp |-> i, args |-> as, fn |-> ""]

Enter(f) == [op |-> "enter", imp |-> 0, args |-> <<>>, fn |-> f]

Unreachable == [op |-> "unreachable", imp |-> 0, args |-> <<>>, fn |-> ""]

Func(ps, rs, b) == [params |-> ps, results |-> rs, body |-> b]

Export(n, k) == [name |-> n, kind |-> k]

ModuleA ==
    [decodes |-> TRUE,
     imports |-> <<FuncImport("env", "log", <<"i32">>, <<>>),
                   FuncImport("env", "get", <<>>, <<"i32">>)>>,
     exports |-> <<Export("drive", "func"), Export("fetch", "func"),
                   Export("trap", "func"), Export("memory", "memory")>>,
     hasMem  |-> TRUE,
     funcs   |-> [n \in {"drive", "fetch", "trap"} |->
                    CASE n = "drive" -> Func(<<>>, <<>>,
                                             <<Host(1, <<I32(7)>>), Host(1, <<I32(11)>>)>>)
                      [] n = "fetch" -> Func(<<"i32">>, <<"i32">>,
                                             <<Enter("inner"), Host(2, <<>>), Enter("inner")>>)
                      [] n = "trap"  -> Func(<<>>, <<>>, <<Unreachable>>)]]

ModuleB ==
    [decodes |-> TRUE,
     imports |-> <<FuncImport("sys", "now", <<"f64">>, <<"i64">>),
                   FuncImport("env", "log", <<"i32">>, <<>>)>>,
     exports |-> <<Export("tick", "func")>>,
     hasMem  |-> FALSE,
     funcs   |-> [n \in {"tick"} |->
                    Func(<<>>, <<"i64">>,
                         <<Host(1, <<[ty |-> "f64", v |-> F64Bits(5)]>>)>>)]]

\* imports a global that no remote host module provides: a link error
ModuleG ==
    [decodes |-> TRUE,
     imports |-> <<FuncImport("env", "log", <<"i32">>, <<>>), GlobalImport("env", "g")>>,
     exports |-> <<>>,
     hasMem  |-> FALSE,
     funcs   |-> [n \in {} |-> Func(<<>>, <<>>, <<>>)]]

\* exports a global
ModuleE ==
    [decodes |-> TRUE,
     imports |-> <<>>,
     exports |-> <<Export("run", "func"), Export("g", "global")>>,
     hasMem  |-> FALSE,
     funcs   |-> [n \in {"run"} |-> Func(<<>>, <<>>, <<>>)]]

\* bytes that are no WebAssembly module: a decode error
ModuleX ==
    [decodes |-> FALSE, imports |-> <<>>, exports |-> <<>>, hasMem |-> FALSE,
     funcs |-> [n \in {} |-> Func(<<>>, <<>>, <<>>)]]

Binaries == {"A", "B", "G", "E", "X"}

ModuleOf(b) ==
    CASE b = "A" -> ModuleA
      [] b = "B" -> ModuleB
      [] b = "G" -> ModuleG
      [] b = "E" -> ModuleE
      [] b = "X" -> ModuleX

\* bytes of the one memory a module defines (a page, scaled down)
MemSize == 2

(***************************************************************************)
(* Remote host modules.                                                    *)
(***************************************************************************)
\* a closure that captures the two names in each other's place
remote_call_fn_swapped(field_name, module_name, ty) ==
    [field_name |-> module_name, module_name |-> field_name, ty |-> ty]

\* the HostFuncBody that remote_call_fn builds: its signature and what the
\* closure captures
remote_call_fn(field_name, module_name, ty) ==
    [field_name |-> field_name, module_name |-> module_name, ty |-> ty]

MaxOf(S) == CHOOSE x \in S : \A y \in S : y <= x

NoFuncs == [f \in {} |-> 0]

\* HashMap::new(): no host module yet
NoModules == [m \in {} |-> NoFuncs]

\* a loop body that starts the module's map afresh instead of entry().or_default()
import_entry_fresh(modules, import) ==
    IF import.kind # "func" THEN modules
    ELSE [m \in DOMAIN modules \cup {import.module} |->
            IF m = import.module
            THEN [f \in {import.field} |->
                    remote_call_fn(import.field, import.module,
                                   [params |-> import.params, results |-> import.results])]
            ELSE modules[m]]

\* the body of the loop over the import section: an import that is no
\* function is skipped; a function import puts its host function under its
\* field in the map of its module, in the place of an entry already there
import_entry(modules, import) ==
    IF import.kind # "func" THEN modules
    ELSE LET func == remote_call_fn(import.field, import.module,
                                    [params |-> import.params, results |-> import.results])
             old  == IF import.module \in DOMAIN modules
                     THEN modules[import.module] ELSE NoFuncs
         IN  [m \in DOMAIN modules \cup {import.module} |->
                IF m = import.module
                THEN [f \in DOMAIN old \cup {import.field} |->
                        IF f = import.field THEN func ELSE old[f]]
                ELSE modules[m]]

RECURSIVE ImportSection(_, _)
\* the loop over the imports imps, from the map modules
ImportSection(modules, imps) ==
    IF imps = <<>> THEN modules
    ELSE ImportSection(import_entry(modules, Head(imps)), Tail(imps))

\* module name -> field name -> host function, for the function imports
remote_import_module(bytes) == ImportSection(NoModules, ModuleOf(bytes).imports)

\* the orders in which a HashMap of the names in S may be iterated
Orders(S) ==
    {s \in [1..Cardinality(S) -> S] : \A i, j \in 1..Cardinality(S) : i # j => s[i] # s[j]}

(***************************************************************************)
(* The store: the sequence of module instances, a module's index being its *)
(* position.  epoch tags an instance with the Init that created it.        *)
(***************************************************************************)
HostInstance(name, funcs, e) ==
    [kind |-> "host", name |-> name, funcs |-> funcs, epoch |-> e]

DefinedInstance(bytes, e) ==
    [kind |-> "defined", name |-> bytes, funcs |-> NoFuncs, epoch |-> e]

\* Store::new()
reset_store == <<>>

load_host_module(st, name, module, e) == Append(st, HostInstance(name, module, e))

\* the store after the host modules are loaded in the order ord
RECURSIVE LoadHostModules(_, _, _, _)
LoadHostModules(st, imports, ord, e) ==
    IF ord = <<>> THEN st
    ELSE LoadHostModules(load_host_module(st, Head(ord), imports[Head(ord)], e),
                         imports, Tail(ord), e)

\* the host function an import resolves to, or none
HostIndex(st, m) == {i \in 1..Len(st) : st[i].kind = "host" /\ st[i].name = m}

Resolves(st, imp) ==
    /\ imp.kind = "func"
    /\ \E i \in HostIndex(st, imp.module) :
          /\ imp.field \in DOMAIN st[i].funcs
          /\ st[i].funcs[imp.field].ty = [params |-> imp.params, results |-> imp.results]

ResolveHost(st, imp) ==
    LET i == MaxOf({j \in HostIndex(st, imp.module) : imp.field \in DOMAIN st[j].funcs})
    IN  st[i].funcs[imp.field]

\* load_module: every import must link
Links(st, bytes) ==
    \A i \in 1..Len(ModuleOf(bytes).imports) : Resolves(st, ModuleOf(bytes).imports[i])

\* the module the debugger runs: the defined instance of the store
MainIndex(st) == {i \in 1..Len(st) : st[i].kind = "defined"}

HasMain(st) == MainIndex(st) # {}

MainBytes(st) == st[MaxOf(MainIndex(st))].name

ZeroMemory == [i \in 1..MemSize |-> 0]

\* lookup_func: the exported function of that name in the main module
HasFunc(st, name) ==
    /\ HasMain(st)
    /\ \E i \in 1..Len(ModuleOf(MainBytes(st)).exports) :
          /\ ModuleOf(MainBytes(st)).exports[i].name = name
          /\ ModuleOf(MainBytes(st)).exports[i].kind = "func"

lookup_func(st, name) == ModuleOf(MainBytes(st)).funcs[name]

\* module_exports: panics (unimplemented!) on an export that is neither a
\* function nor a memory
ExportsSupported(bytes) ==
    \A i \in 1..Len(ModuleOf(bytes).exports) :
        ModuleOf(bytes).exports[i].kind \in {"func", "memory"}

module_exports(bytes, mem) ==
    [i \in 1..Len(ModuleOf(bytes).exports) |->
        IF ModuleOf(bytes).exports[i].kind = "memory"
        THEN [kind |-> "Memory", name |-> ModuleOf(bytes).exports[i].name,
              memory_size |-> Len(mem)]
        ELSE [kind |-> "Function", name |-> ModuleOf(bytes).exports[i].name,
              memory_size |-> 0]]

(***************************************************************************)
(* Messages.                                                               *)
(***************************************************************************)
Version == [k |-> "Version"]

InitReq(b) == [k |-> "Init", bytes |-> b]

CallExported(n, as) == [k |-> "CallExported", name |-> n, args |-> as]

CallResultReq(vs) == [k |-> "CallResult", values |-> vs]

LoadMemory(o, l) == [k |-> "LoadMemory", offset |-> o, length |-> l]

StoreMemory(o, bs) == [k |-> "StoreMemory", offset |-> o, bytes |-> bs]

\* a message that deserialize_request rejects
Garbage == [k |-> "Garbage"]

\* the end-of-stream marker: the channel carries Option<Message>
NoneMsg == [k |-> "None"]

Requests ==
    {Version, Garbage}
    \cup {InitReq(b) : b \in Binaries}
    \cup {CallExported("drive", <<>>), CallExported("drive", <<5>>),
          CallExported("fetch", <<-3>>), CallExported("trap", <<>>),
          CallExported("tick", <<>>), CallExported("nosuch", <<>>)}
    \cup {CallResultReq(<<>>), CallResultReq(<<5>>)}
    \cup {LoadMemory(0, 1), LoadMemory(1, MemSize)}
    \cup {StoreMemory(0, <<9>>), StoreMemory(MemSize, <<9>>)}

ErrorResp(m) == [k |-> "Error", message |-> m]

CallResultResp(vs) == [k |-> "CallResult", values |-> vs]

CallHost(m, f, as) == [k |-> "CallHost", module |-> m, field |-> f, args |-> as]

VERSION == "0.1.0"

(***************************************************************************)
(* State.                                                                  *)
(***************************************************************************)
VARIABLES
    inbound,       \* the inbound channel (transport -> executor)
    conn,          \* "open", "eof" (None was queued) or "dropped" (sender gone)
    nsent,         \* messages the client has sent
    sinkOk,        \* the outbound sink accepts messages
    sinkPoisoned,  \* the sink's mutex is poisoned
    sinkLock,      \* who holds the sink's mutex: "free" or "sender"
    outbound,      \* messages put on the sink since the current request was taken
    pc,            \* the executor thread: idle, exec, await, paused, panicked, closed
    mode,          \* where call_exported is: execute_func, run_loop (the first),
                   \* dispatch (`process continue`) or run_loop_again
    proc,          \* the running process: function, instruction index, stack
    breakpoints,   \* functions with a breakpoint
    store,         \* the module instances
    memory,        \* the bytes of the main module's memory
    epoch,         \* number of Inits handled
    current,       \* the request being handled
    returned,      \* the request and response of the last return of handle_request
    nreturned,     \* number of returns of handle_request
    ntaken,        \* requests handed to handle_request
    inv,           \* the last CallExported invocation: its function, the number of
                   \* its request, whether it still runs, the messages its host
                   \* calls took from the inbound channel, the result slices they
                   \* wrote, the last of these, the pauses of the process and
                   \* the `process continue` commands the proxy dispatched
    eval           \* the library function under evaluation, its inputs and its
                   \* result (the sessions of the proxy leave it alone)

session == <<inbound, conn, nsent, sinkOk, sinkPoisoned, sinkLock, outbound, pc,
             mode, proc, breakpoints, store, memory, epoch, current, returned,
             nreturned, ntaken, inv>>

vars == <<session, eval>>

NoProc == [fn |-> "", ip |-> 0, stack |-> <<>>, locals |-> <<>>]

NoReply == [values |-> <<>>, ty |-> [params |-> <<>>, results |-> <<>>], results |-> <<>>]

NoInv == [fn |-> "", req |-> 0, active |-> FALSE, replies |-> 0, written |-> 0,
          reply |-> NoReply, pauses |-> 0, dispatched |-> 0]

NoReturn == [req |-> Version, resp |-> Version]

NoEval == [fn |-> "none"]

InitSession ==
    /\ inbound = <<>>
    /\ conn = "open"
    /\ nsent = 0
    /\ sinkOk = TRUE
    /\ sinkPoisoned = FALSE
    /\ sinkLock = "free"
    /\ outbound = <<>>
    /\ pc = "idle"
    /\ mode = "none"
    /\ proc = NoProc
    /\ breakpoints \in {{}, {"inner"}}
    /\ store = <<>>
    /\ memory = <<>>
    /\ epoch = 0
    /\ current = Version
    /\ returned = NoReturn
    /\ nreturned = 0
    /\ ntaken = 0
    /\ inv = NoInv

Init == InitSession /\ eval = NoEval

(***************************************************************************)
(* The client and the transport.                                           *)
(***************************************************************************)
ClientSend(m) ==
    /\ conn = "open"
    /\ pc \notin {"closed", "panicked"}
    /\ nsent < MaxMsgs
    /\ Len(inbound) < MaxQueue
    /\ inbound' = Append(inbound, m)
    /\ nsent' = nsent + 1
    /\ UNCHANGED <<conn, sinkOk, sinkPoisoned, sinkLock, eval, outbound, pc, mode, proc, breakpoints,
                   store, memory, epoch, current, returned, nreturned, ntaken, inv>>

\* the stream ends: the transport queues None
ClientEof ==
    /\ conn = "open"
    /\ pc \notin {"closed", "panicked"}
    /\ conn' = "eof"
    /\ inbound' = Append(inbound, NoneMsg)
    /\ UNCHANGED <<nsent, sinkOk, sinkPoisoned, sinkLock, eval, outbound, pc, mode, proc, breakpoints,
                   store, memory, epoch, current, returned, nreturned, ntaken, inv>>

\* the transport task ends and drops the sender
TransportDrop ==
    /\ conn = "open"
    /\ pc \notin {"closed", "panicked"}
    /\ conn' = "dropped"
    /\ UNCHANGED <<inbound, nsent, sinkOk, sinkPoisoned, sinkLock, eval, outbound, pc, mode, proc,
                   breakpoints, store, memory, epoch, current, returned, nreturned, ntaken, inv>>

\* the outbound half of the socket fails
SinkFail ==
    /\ sinkOk
    /\ pc \notin {"closed", "panicked"}
    /\ sinkOk' = FALSE
    /\ UNCHANGED <<inbound, conn, nsent, sinkPoisoned, sinkLock, eval, outbound, pc, mode, proc,
                   breakpoints, store, memory, epoch, current, returned, nreturned, ntaken, inv>>

(***************************************************************************)
(* The executor thread: the loop that takes requests from the inbound      *)
(* channel, and handle_request.                                            *)
(***************************************************************************)
Ok(r) == [ok |-> TRUE, val |-> r]

Err(m) == [ok |-> FALSE, val |-> m]

\* a handler that answers an error with an empty CallResult
handle_request_swallow(result) ==
    IF result.ok THEN result.val ELSE [k |-> "CallResult", values |-> <<>>]

\* handle_request: an error of _handle_request becomes the Error response
handle_request(result) == IF result.ok THEN result.val ELSE ErrorResp(result.val)

\* handle_request returns; the loop puts the response on the sink, after the
\* messages out that were sent while the request was handled; when the sink
\* does not take the response the loop leaves or goes on with the next request
Return(result, out) ==
    /\ returned' = [req |-> current', resp |-> handle_request(result)]
    /\ nreturned' = nreturned + 1
    /\ IF sinkOk /\ ~sinkPoisoned
       THEN outbound' = Append(out, handle_request(result)) /\ pc' = "idle"
       ELSE outbound' = out /\ pc' \in {"closed", "idle"}

\* the loop takes the next message and hands it to handle_request
Take(m) ==
    /\ pc = "idle"
    /\ inbound # <<>>
    /\ Head(inbound) = m
    /\ inbound' = Tail(inbound)
    /\ ntaken' = ntaken + 1
    /\ current' = m

\* the channel ends: the loop leaves
MainLoopEnd ==
    /\ pc = "idle"
    /\ \/ inbound # <<>> /\ Head(inbound) = NoneMsg /\ inbound' = Tail(inbound)
       \/ inbound = <<>> /\ conn = "dropped" /\ inbound' = inbound
    /\ pc' = "closed"
    /\ UNCHANGED <<conn, nsent, sinkOk, sinkPoisoned, sinkLock, eval, outbound, mode, proc, breakpoints,
                   store, memory, epoch, current, returned, nreturned, ntaken, inv>>

\* a message that does not deserialize is answered with an error
HandleGarbage ==
    /\ Take(Garbage)
    /\ Return(Err("invalid request"), <<>>)
    /\ UNCHANGED <<conn, nsent, sinkOk, sinkPoisoned, sinkLock, eval, mode, proc, breakpoints, store,
                   memory, epoch, inv>>

HandleVersion ==
    /\ Take(Version)
    /\ Return(Ok([k |-> "Version", value |-> VERSION]), <<>>)
    /\ UNCHANGED <<conn, nsent, sinkOk, sinkPoisoned, sinkLock, eval, mode, proc, breakpoints, store,
                   memory, epoch, inv>>

\* Text(CallResult { .. }) => unreachable!()
HandleCallResult ==
    /\ inbound # <<>>
    /\ Head(inbound).k = "CallResult"
    /\ Take(Head(inbound))
    /\ pc' = "panicked"
    /\ outbound' = <<>>
    /\ UNCHANGED <<conn, nsent, sinkOk, sinkPoisoned, sinkLock, eval, mode, proc, breakpoints, store,
                   memory, epoch, returned, nreturned, inv>>

\* the remote host modules added to the store as it is
InitHostStore_keep(st, imports, ord, e) == LoadHostModules(st, imports, ord, e)

\* Init, up to the load of the module: reset, then the remote host modules
InitHostStore(st, imports, ord, e) == LoadHostModules(reset_store, imports, ord, e)

\* an Init that puts the store back as it was when it fails
init_failed_rollback(before, now) == before

\* the store a failed Init leaves: `?` returns the error with the store as
\* the steps before it made it
init_failed(before, now) == now

HandleInit ==
    /\ inbound # <<>>
    /\ Head(inbound).k = "Init"
    /\ LET b == Head(inbound).bytes IN
        /\ Take(Head(inbound))
        /\ epoch' = epoch + 1
        /\ IF ~ModuleOf(b).decodes
           THEN /\ store' = init_failed(store, reset_store)
                /\ memory' = <<>>
                /\ Return(Err("decode error"), <<>>)
           ELSE \E ord \in Orders(DOMAIN remote_import_module(b)) :
                  LET st1 == InitHostStore(store, remote_import_module(b), ord, epoch + 1)
                      mem == IF ModuleOf(b).hasMem THEN ZeroMemory ELSE <<>>
                  IN  IF ~Links(st1, b)
                      THEN /\ store' = init_failed(store, st1)
                           /\ memory' = <<>>
                           /\ Return(Err("unknown import"), <<>>)
                      ELSE /\ store' = Append(st1, DefinedInstance(b, epoch + 1))
                           /\ memory' = mem
                           /\ IF ExportsSupported(b)
                              THEN Return(Ok([k |-> "Init",
                                              exports |-> module_exports(b, mem)]), <<>>)
                              ELSE /\ pc' = "panicked"
                                   /\ outbound' = <<>>
                                   /\ UNCHANGED <<returned, nreturned>>
    /\ UNCHANGED <<conn, nsent, sinkOk, sinkPoisoned, sinkLock, eval, mode, proc, breakpoints, inv>>

\* debugger.memory(): the main module's memory, an error without one
HasMemory == HasMain(store) /\ ModuleOf(MainBytes(store)).hasMem

HandleLoadMemory ==
    /\ inbound # <<>>
    /\ Head(inbound).k = "LoadMemory"
    /\ LET o == Head(inbound).offset
           l == Head(inbound).length
       IN
        /\ Take(Head(inbound))
        /\ IF ~HasMemory
           THEN Return(Err("no memory"), <<>>)
           ELSE IF o + l > Len(memory)
                THEN pc' = "panicked" /\ outbound' = <<>> /\ UNCHANGED <<returned, nreturned>>
                ELSE Return(Ok([k |-> "LoadMemoryResult",
                                bytes |-> SubSeq(memory, o + 1, o + l)]), <<>>)
    /\ UNCHANGED <<conn, nsent, sinkOk, sinkPoisoned, sinkLock, eval, mode, proc, breakpoints, store,
                   memory, epoch, inv>>

HandleStoreMemory ==
    /\ inbound # <<>>
    /\ Head(inbound).k = "StoreMemory"
    /\ LET o  == Head(inbound).offset
           bs == Head(inbound).bytes
       IN
        /\ Take(Head(inbound))
        /\ IF ~HasMemory \/ o + Len(bs) > Len(memory)
           THEN memory' = memory /\ Return(Err("write out of bounds"), <<>>)
           ELSE /\ memory' = [i \in 1..Len(memory) |->
                                IF i > o /\ i <= o + Len(bs) THEN bs[i - o] ELSE memory[i]]
                /\ Return(Ok([k |-> "StoreMemoryResult"]), <<>>)
    /\ UNCHANGED <<conn, nsent, sinkOk, sinkPoisoned, sinkLock, eval, mode, proc, breakpoints, store,
                   epoch, inv>>

(***************************************************************************)
(* call_exported and the executor.                                         *)
(***************************************************************************)
\* the instruction the process is at, or none past the end of the body
Body(p) == lookup_func(store, p.fn).body

AtEnd(p) == p.ip > Len(Body(p))

Instr(p) == Body(p)[p.ip]

\* no check of the argument count
ArgsMatch_any(func_ty, args) == TRUE

\* the argument count check of call_exported
ArgsMatch(func_ty, args) == Len(func_ty.params) = Len(args)

\* the invocation ends with an error: a trap, or an error of a command
Fail(msg, replies) ==
    /\ proc' = NoProc
    /\ mode' = "none"
    /\ inv' = [inv EXCEPT !.active = FALSE, !.replies = replies]
    /\ Return(Err(msg), outbound)

HandleCallExported ==
    /\ inbound # <<>>
    /\ Head(inbound).k = "CallExported"
    /\ LET name == Head(inbound).name
           args == Head(inbound).args
       IN
        /\ Take(Head(inbound))
        /\ IF ~HasFunc(store, name)
           THEN Return(Err("function not found"), <<>>) /\ UNCHANGED <<proc, mode, inv>>
           ELSE IF ~ArgsMatch(lookup_func(store, name), args)
                THEN /\ Return(Err("CallArgumentLengthMismatch"), <<>>)
                     /\ UNCHANGED <<proc, mode, inv>>
                ELSE /\ proc' = [fn |-> name, ip |-> 1, stack |-> <<>>,
                                 locals |-> ZipCoerce(args, lookup_func(store, name).params)]
                     /\ mode' = "execute_func"
                     /\ inv' = [NoInv EXCEPT !.fn = name, !.req = ntaken + 1, !.active = TRUE]
                     /\ pc' = "exec"
                     /\ outbound' = <<>>
                     /\ UNCHANGED <<returned, nreturned>>
    /\ UNCHANGED <<conn, nsent, sinkOk, sinkPoisoned, sinkLock, eval, breakpoints, store, memory, epoch>>

\* the process finishes: Finish(values) or ProcessFinish(values) becomes the
\* CallResult response
Finish ==
    /\ pc = "exec"
    /\ AtEnd(proc)
    /\ UNCHANGED current
    /\ Return(Ok(CallResultResp(MapWire(proc.stack))), outbound)
    /\ proc' = NoProc
    /\ mode' = "none"
    /\ inv' = [inv EXCEPT !.active = FALSE]
    /\ UNCHANGED <<inbound, conn, nsent, sinkOk, sinkPoisoned, sinkLock, eval, breakpoints, store, memory,
                   epoch, ntaken>>

\* where call_exported is once the process has paused at a breakpoint:
\* execute_func returned Breakpoint, a command of the loop paused again, or
\* `process continue` returned None
OnBreakpoint(m) ==
    CASE m = "execute_func" -> "run_loop"
      [] m = "dispatch" -> "run_loop_again"
      [] OTHER -> m

\* a frame of a defined function is entered; with a breakpoint on it the
\* process pauses and the interactive loop runs
EnterFrame ==
    /\ pc = "exec"
    /\ ~AtEnd(proc)
    /\ Instr(proc).op = "enter"
    /\ proc' = [proc EXCEPT !.ip = proc.ip + 1]
    /\ IF Instr(proc).fn \in breakpoints
       THEN /\ pc' = "paused"
            /\ mode' = OnBreakpoint(mode)
            /\ inv' = [inv EXCEPT !.pauses = inv.pauses + 1]
       ELSE /\ pc' = "exec"
            /\ UNCHANGED <<mode, inv>>
    /\ UNCHANGED <<inbound, conn, nsent, sinkOk, sinkPoisoned, sinkLock, eval, outbound, breakpoints, store,
                   memory, epoch, current, returned, nreturned, ntaken>>

\* unreachable traps; the trap unwinds to call_exported
TrapUnreachable ==
    /\ pc = "exec"
    /\ ~AtEnd(proc)
    /\ Instr(proc).op = "unreachable"
    /\ UNCHANGED current
    /\ Fail("unreachable", inv.replies)
    /\ UNCHANGED <<inbound, conn, nsent, sinkOk, sinkPoisoned, sinkLock, eval, breakpoints, store, memory,
                   epoch, ntaken>>

(***************************************************************************)
(* The remote host function (the closure of remote_call_fn).               *)
(***************************************************************************)
\* the host function the instruction calls
HostOf(p) == ResolveHost(store, ModuleOf(MainBytes(store)).imports[Instr(p).imp])

\* the CallHost message of a call
CallHostOf(h, args) == CallHost(h.module_name, h.field_name, MapWire(args))

\* a sink that delivers the newest message first
SinkSend_first(out, msg) == <<msg>> \o out

\* tx.lock().unwrap().send(..): the message goes on the sink after the others
SinkSend(out, msg) == Append(out, msg)

\* a receive that gives up on an empty open channel, as recv_timeout would
recv_timeout(q, c) == IF q # <<>> THEN "message" ELSE "disconnected"

\* rx.recv() on the queue q of a channel in state c
recv(q, c) ==
    IF q # <<>> THEN "message"
    ELSE IF c = "dropped" THEN "disconnected" ELSE "blocked"

\* what the host function makes of the message it received
Received(m) ==
    CASE m = NoneMsg -> "end"
      [] m = Garbage -> "invalid"
      [] m.k = "CallResult" -> "result"
      [] OTHER -> "unreachable"

\* the result slice after a CallResult{values}
RemoteResults(values, ty) == ZipCoerce(values, ty.params)

\* a mutex that a panic under the lock leaves clean
poison_never(poisoned, panicked) == poisoned

\* the poison flag of the mutex after a guard was dropped: a guard dropped
\* by the unwinding of a panic poisons the mutex, for good
poison(poisoned, panicked) == poisoned \/ panicked

\* a guard that outlives the statement that took the lock
drop_guard_leak(lock) == lock

\* the MutexGuard, a temporary of the send statement, is dropped at its end
drop_guard(lock) == "free"

\* the host function spawns the sender thread, which takes the lock of the sink;
\* on a poisoned mutex lock().unwrap() panics, the guard inside the PoisonError
\* is dropped, and the join reports the panic
RemoteCallLock ==
    /\ pc = "exec"
    /\ ~AtEnd(proc)
    /\ Instr(proc).op = "host"
    /\ sinkLock = "free"
    /\ UNCHANGED current
    /\ IF ~sinkPoisoned
       THEN /\ sinkLock' = "sender"
            /\ pc' = "sending"
            /\ UNCHANGED <<outbound, proc, mode, inv, returned, nreturned>>
       ELSE /\ sinkLock' = drop_guard("sender")
            /\ Fail("HostFunctionError: poisoned lock", inv.replies)
    /\ UNCHANGED <<inbound, conn, nsent, sinkOk, sinkPoisoned, breakpoints, store, memory,
                   epoch, ntaken, eval>>

\* the sender thread sends the CallHost under the lock, drops the guard and
\* ends, and the executor joins it; a failed send panics under the lock, which
\* poisons the mutex
RemoteCallSend ==
    /\ pc = "sending"
    /\ sinkLock' = drop_guard(sinkLock)
    /\ sinkPoisoned' = poison(sinkPoisoned, ~sinkOk)
    /\ UNCHANGED current
    /\ IF sinkOk
       THEN /\ outbound' = SinkSend(outbound, CallHostOf(HostOf(proc), Instr(proc).args))
            /\ pc' = "await"
            /\ UNCHANGED <<proc, mode, inv, returned, nreturned>>
       ELSE Fail("HostFunctionError: sender panicked", inv.replies)
    /\ UNCHANGED <<inbound, conn, nsent, sinkOk, breakpoints, store, memory, epoch, ntaken,
                   eval>>

\* rx.recv() returns: a reply, the end of the stream, or a closed channel
RemoteCallRecv ==
    /\ pc = "await"
    /\ recv(inbound, conn) # "blocked"
    /\ UNCHANGED current
    /\ IF recv(inbound, conn) = "disconnected"
       THEN /\ inbound' = inbound
            /\ Fail("HostFunctionError: receiving on a closed channel", inv.replies)
       ELSE /\ inbound' = Tail(inbound)
            /\ CASE Received(Head(inbound)) = "end" ->
                      Fail("HostFunctionError: unexpected end of message", inv.replies + 1)
                 [] Received(Head(inbound)) = "invalid" ->
                      Fail("HostFunctionError: invalid request", inv.replies + 1)
                 [] Received(Head(inbound)) = "result" ->
                      /\ proc' = [proc EXCEPT
                                    !.ip = proc.ip + 1,
                                    !.stack = proc.stack \o
                                              RemoteResults(Head(inbound).values,
                                                            HostOf(proc).ty)]
                      /\ pc' = "exec"
                      /\ inv' = [inv EXCEPT
                                   !.replies = inv.replies + 1,
                                   !.written = inv.written + 1,
                                   !.reply = [values  |-> Head(inbound).values,
                                              ty      |-> HostOf(proc).ty,
                                              results |-> RemoteResults(Head(inbound).values,
                                                                        HostOf(proc).ty)]]
                      /\ UNCHANGED <<mode, outbound, returned, nreturned>>
                 [] OTHER ->
                      /\ pc' = "panicked"
                      /\ inv' = [inv EXCEPT !.replies = inv.replies + 1]
                      /\ UNCHANGED <<proc, mode, outbound, returned, nreturned>>
    /\ UNCHANGED <<conn, nsent, sinkOk, sinkPoisoned, sinkLock, eval, breakpoints, store, memory, epoch,
                   ntaken>>

(***************************************************************************)
(* The operator at the interactive loop.                                   *)
(***************************************************************************)
\* a command that resumes the process inside run_loop
OperatorContinue ==
    /\ pc = "paused"
    /\ pc' = "exec"
    /\ mode' = mode
    /\ UNCHANGED <<inbound, conn, nsent, sinkOk, sinkPoisoned, sinkLock, eval, outbound, proc, breakpoints,
                   store, memory, epoch, current, returned, nreturned, ntaken, inv>>

\* a proxy that answers with the values so far when the operator leaves
OperatorExit_returns ==
    /\ pc = "paused"
    /\ UNCHANGED current
    /\ Return(Ok(CallResultResp(MapWire(proc.stack))), outbound)
    /\ proc' = NoProc
    /\ mode' = "none"
    /\ inv' = [inv EXCEPT !.active = FALSE]
    /\ UNCHANGED <<inbound, conn, nsent, sinkOk, sinkPoisoned, sinkLock, eval, breakpoints, store, memory,
                   epoch, ntaken>>

\* the operator leaves the loop: run_loop returns Exit and call_exported
\* dispatches `process continue`
OperatorExit ==
    /\ pc = "paused"
    /\ pc' = "exec"
    /\ mode' = "dispatch"
    /\ inv' = [inv EXCEPT !.dispatched = inv.dispatched + 1]
    /\ UNCHANGED <<inbound, conn, nsent, sinkOk, sinkPoisoned, sinkLock, eval, outbound, proc, breakpoints,
                   store, memory, epoch, current, returned, nreturned, ntaken>>

\* the operator deletes the breakpoints
OperatorDelete ==
    /\ pc = "paused"
    /\ breakpoints # {}
    /\ breakpoints' = {}
    /\ UNCHANGED <<inbound, conn, nsent, sinkOk, sinkPoisoned, sinkLock, eval, outbound, pc, mode, proc,
                   store, memory, epoch, current, returned, nreturned, ntaken, inv>>

Next ==
    \/ \E m \in Requests : ClientSend(m)
    \/ ClientEof
    \/ TransportDrop
    \/ SinkFail
    \/ MainLoopEnd
    \/ HandleGarbage
    \/ HandleVersion
    \/ HandleCallResult
    \/ HandleInit
    \/ HandleLoadMemory
    \/ HandleStoreMemory
    \/ HandleCallExported
    \/ Finish
    \/ EnterFrame
    \/ TrapUnreachable
    \/ RemoteCallLock
    \/ RemoteCallSend
    \/ RemoteCallRecv
    \/ OperatorContinue
    \/ OperatorExit
    \/ OperatorDelete

Spec == Init /\ [][Next]_vars

(***************************************************************************)
(* Properties.                                                             *)
(***************************************************************************)
\* the CallHost messages sent while the current request is handled
InvCalls == SelectSeq(outbound, LAMBDA m : m.k = "CallHost")

\* the current request is the CallExported that inv describes
InScope == inv.req > 0 /\ inv.req = ntaken

\* the CallHost messages of the host instructions among the first n of a body,
\* by the import section of the module
RECURSIVE ProgramCalls(_, _, _)
ProgramCalls(imps, body, n) ==
    IF n = 0 THEN <<>>
    ELSE IF body[n].op = "host"
         THEN Append(ProgramCalls(imps, body, n - 1),
                     [k |-> "CallHost", module |-> imps[body[n].imp].module,
                      field |-> imps[body[n].imp].field,
                      args |-> [i \in 1..Len(body[n].args) |->
                                  [type |-> body[n].args[i].ty,
                                   value |-> body[n].args[i].v]]])
         ELSE ProgramCalls(imps, body, n - 1)

\* instructions of the running process that have been started
Started == IF pc \in {"await", "panicked"} THEN proc.ip ELSE proc.ip - 1

MainImports == ModuleOf(MainBytes(store)).imports

\* C1: during one CallExported invocation the CallHost messages are sent in
\* the order in which the executor calls the imports, the next one only after
\* a reply to the previous one was taken from the inbound channel, and the
\* CallResult response comes only after every CallHost was answered.
C1_HostCallsInProgramOrder ==
    InScope =>
        /\ inv.active =>
              /\ InvCalls = ProgramCalls(MainImports, Body(proc), Started)
              /\ Len(InvCalls) - inv.replies = IF pc = "await" THEN 1 ELSE 0
        /\ (~inv.active /\ returned.resp.k = "CallResult") =>
              /\ InvCalls = ProgramCalls(MainImports, lookup_func(store, inv.fn).body,
                                         Len(lookup_func(store, inv.fn).body))
              /\ inv.replies = Len(InvCalls)
              /\ outbound \in {InvCalls, Append(InvCalls, returned.resp)}

\* an invocation with two host calls has returned its CallResult
C1_Witness ==
    /\ InScope
    /\ ~inv.active
    /\ returned.resp.k = "CallResult"
    /\ Len(InvCalls) = 2
    /\ InvCalls[1] # InvCalls[2]

\* the inbound channel reports closure to a receiver: it is disconnected and
\* empty, or its next message is the end-of-stream marker
ChannelClosed ==
    \/ inbound = <<>> /\ conn = "dropped"
    \/ inbound # <<>> /\ Head(inbound) = NoneMsg

\* C2: once the CallHost is sent the host function does not return, the
\* executor runs nothing and no response is produced until a message is taken
\* from the inbound channel or the channel reports closure; with neither, the
\* call stays pending (there is no timeout).
C2_HostCallBlocksUntilReply ==
    [][pc = "await" =>
          \/ /\ pc' = "await"
             /\ UNCHANGED <<proc, mode, inv, outbound, returned, nreturned, store, memory>>
          \/ inbound # <<>> /\ inbound' = Tail(inbound)
          \/ ChannelClosed]_vars

\* a host call is pending, the client has neither replied nor disconnected
C2_Witness ==
    /\ pc = "await"
    /\ inbound = <<>>
    /\ conn = "open"
    /\ Len(InvCalls) = 1
    /\ nreturned = ntaken - 1

\* C3: when the transport closes while a remote host call is outstanding, the
\* host function traps with HostFunctionError and writes no result, and the
\* CallExported is answered with Error and not with CallResult.
C3_ClosedTransportTraps ==
    [][(pc = "await" /\ pc' # "await" /\ ChannelClosed) =>
          /\ nreturned' = nreturned + 1
          /\ returned'.req = current
          /\ returned'.resp \in
                {ErrorResp("HostFunctionError: unexpected end of message"),
                 ErrorResp("HostFunctionError: receiving on a closed channel")}
          /\ inv'.written = inv.written
          /\ inv'.reply = inv.reply
          /\ ~inv'.active
          /\ pc' \in {"idle", "closed"}]_vars

\* a host call ended by the end-of-stream marker, the request answered with
\* the error
C3_Witness ==
    /\ InScope
    /\ ~inv.active
    /\ Len(InvCalls) >= 1
    /\ returned.req = current
    /\ returned.resp = ErrorResp("HostFunctionError: unexpected end of message")

\* the same by a dropped sender
C3_WitnessDropped ==
    /\ InScope
    /\ ~inv.active
    /\ Len(InvCalls) >= 1
    /\ returned.resp = ErrorResp("HostFunctionError: receiving on a closed channel")

\* C4: the result slice after a CallResult{values} holds one value per
\* declared result of the import, the i-th number coerced to the i-th declared
\* result type.
C4_ResultsByDeclaredResults ==
    (inv.written > 0 /\ Len(inv.reply.values) >= Len(inv.reply.ty.results)) =>
        inv.reply.results =
            [i \in 1..Len(inv.reply.ty.results) |->
                from_js_number(inv.reply.values[i], inv.reply.ty.results[i])]

\* C5: the CallHost sent for a call of an import carries the module and field
\* name of that import and the arguments of the call, in order, each with its
\* value type and bits.
C5_CallHostCarriesImport ==
    pc = "await" =>
        LET imp  == MainImports[Instr(proc).imp]
            args == Instr(proc).args
            m    == outbound[Len(outbound)]
        IN  /\ m.k = "CallHost"
            /\ m.module = imp.module
            /\ m.field = imp.field
            /\ Len(m.args) = Len(args)
            /\ \A i \in 1..Len(args) :
                  m.args[i].type = args[i].ty /\ m.args[i].value = args[i].v

\* the second import of a module is called
C5_Witness ==
    /\ pc = "await"
    /\ proc.fn = "fetch"
    /\ outbound[Len(outbound)] = CallHost("env", "get", <<>>)

\* an import is called with an f64 argument
C5_WitnessF64 ==
    /\ pc = "await"
    /\ proc.fn = "tick"
    /\ outbound[Len(outbound)] =
          CallHost("sys", "now", <<[type |-> "f64", value |-> <<0, 1024, 262144, 0>>]>>)

\* C6: every request handed to handle_request gets exactly one response and
\* the proxy can take the next request.
C6_OneResponsePerRequest ==
    /\ pc # "panicked"
    /\ pc \in {"idle", "closed"} => nreturned = ntaken
    /\ pc \in {"exec", "sending", "await", "paused"} => nreturned = ntaken - 1

\* C7: a CallResult request taken by the request handler is answered with an
\* Error response and the session stays alive.
C7_StrayCallResultAnswered ==
    (ntaken > 0 /\ current.k = "CallResult") =>
        /\ pc # "panicked"
        /\ returned.req = current
        /\ returned.resp.k = "Error"

\* the request handler takes a CallExported whose argument count differs from
\* the parameter count of the exported function
TakesMismatch ==
    /\ pc = "idle"
    /\ inbound # <<>>
    /\ Head(inbound).k = "CallExported"
    /\ ntaken' = ntaken + 1
    /\ HasFunc(store, Head(inbound).name)
    /\ Len(Head(inbound).args) # Len(lookup_func(store, Head(inbound).name).params)

\* C8: a CallExported with the wrong number of arguments is answered with the
\* error CallArgumentLengthMismatch before anything runs: no process starts,
\* no CallHost is sent, store and executor state stay as they were.
C8_ArgumentCountChecked ==
    [][TakesMismatch =>
          /\ nreturned' = nreturned + 1
          /\ returned' = [req |-> Head(inbound),
                          resp |-> ErrorResp("CallArgumentLengthMismatch")]
          /\ pc' \in {"idle", "closed"}
          /\ \A i \in 1..Len(outbound') : outbound'[i].k # "CallHost"
          /\ UNCHANGED <<store, memory, proc, mode, breakpoints, inv, epoch>>]_vars

\* such a request was answered
C8_Witness ==
    /\ pc = "idle"
    /\ nreturned = ntaken
    /\ current = CallExported("drive", <<5>>)
    /\ HasFunc(store, "drive")
    /\ returned = [req |-> current, resp |-> ErrorResp("CallArgumentLengthMismatch")]

\* C9: while the process is paused at a breakpoint no response is produced;
\* the one CallResult of the request comes when the process has finished and
\* carries its values; when the operator leaves the loop the proxy continues
\* the process, and a `process continue` that pauses again leads back into the
\* interactive loop.
C9_BreakpointInterleave ==
    [][/\ nreturned' <= ntaken'
       /\ pc = "paused" =>
             /\ nreturned = ntaken - 1
             /\ inv.active
             /\ \A i \in 1..Len(outbound) : outbound[i].k = "CallHost"
             /\ UNCHANGED <<nreturned, returned, outbound, proc>>
             /\ pc' \in {"paused", "exec"}
             /\ mode' \in {mode, "dispatch"}
       /\ (inv.pauses > 0 /\ inv.active /\ nreturned' # nreturned
              /\ returned'.resp.k = "CallResult") =>
             /\ pc = "exec"
             /\ AtEnd(proc)
             /\ returned'.resp.values = MapWire(proc.stack)
       /\ (mode = "dispatch" /\ pc' = "paused") =>
             /\ mode' = "run_loop_again"
             /\ UNCHANGED <<nreturned, outbound>>]_vars

\* the operator left the loop at two breakpoints, the second reached by the
\* proxy's `process continue`, and the finished process was answered
C9_Witness ==
    /\ InScope
    /\ ~inv.active
    /\ inv.pauses = 2
    /\ inv.dispatched = 2
    /\ inv.written = 1
    /\ returned.req = current
    /\ returned.resp.k = "CallResult"

\* the interactive loop is entered again after `process continue` paused
C9_WitnessAgain == pc = "paused" /\ mode = "run_loop_again"

\* C10: after a successful Init the store holds the remote host modules of
\* the module's imports, loaded before it, and the module, all created by this
\* Init; no instance of an earlier Init remains.
C10_InitReplacesStore ==
    /\ \A i \in 1..Len(store) : store[i].epoch = epoch
    /\ Cardinality(MainIndex(store)) <= 1
    /\ (current.k = "Init" /\ nreturned = ntaken /\ returned.req = current
           /\ returned.resp.k = "Init") =>
          LET rim == remote_import_module(current.bytes)
              n   == Cardinality(DOMAIN rim)
          IN  /\ Len(store) = n + 1
              /\ store[n + 1] = DefinedInstance(current.bytes, epoch)
              /\ {store[i] : i \in 1..n} =
                    {HostInstance(m, rim[m], epoch) : m \in DOMAIN rim}

\* a second Init has succeeded
C10_Witness ==
    /\ epoch >= 2
    /\ current = InitReq("B")
    /\ nreturned = ntaken
    /\ returned.req = current
    /\ returned.resp.k = "Init"
    /\ Len(store) = 3

(***************************************************************************)
(* remote_import_module over the import sections of bounded length: the    *)
(* loop takes one import after the other.                                  *)
(***************************************************************************)
MaxImports == 3

ModuleNames == {"env", "sys"}

FieldNames == {"log", "now"}

Signatures == {[params |-> <<"i32">>, results |-> <<>>],
               [params |-> <<>>, results |-> <<"i64">>]}

\* the entries an import section may hold
ImportEntries ==
    {FuncImport(m, f, t.params, t.results) :
        m \in ModuleNames, f \in FieldNames, t \in Signatures}
    \cup {GlobalImport(m, f) : m \in ModuleNames, f \in FieldNames}

SeqsUpTo(S, n) == UNION {[1..k -> S] : k \in 0..n}

\* the session of the proxy has not begun
InitQuiet == InitSession /\ breakpoints = {}

InitImports ==
    /\ InitQuiet
    /\ \E imps \in SeqsUpTo(ImportEntries, MaxImports) :
          eval = [fn |-> "remote_import_module", imports |-> imps, i |-> 1,
                  modules |-> NoModules]

\* one turn of the loop over the import section
ImportStep ==
    /\ eval.fn = "remote_import_module"
    /\ eval.i <= Len(eval.imports)
    /\ eval' = [eval EXCEPT !.modules = import_entry(@, eval.imports[eval.i]),
                            !.i = @ + 1]
    /\ UNCHANGED session

NextImports == ImportStep

SpecImports == InitImports /\ [][NextImports]_vars

\* the function imports among the imports the loop has taken
TakenFuncs == {i \in 1..(eval.i - 1) : eval.imports[i].kind = "func"}

\* the declared function type of an import
DeclaredType(import) == [params |-> import.params, results |-> import.results]

\* the last import taken that names the module and field of import i
LastNamed(i) ==
    MaxOf({j \in TakenFuncs : /\ eval.imports[j].module = eval.imports[i].module
                              /\ eval.imports[j].field = eval.imports[i].field})

\* C11 as stated: every function import (m, f) has the entry f in the host
\* module m, a remote host function for (m, f) of the import's declared
\* function type; one host module per module name, and no entry for an import
\* that is no function
C11_Original ==
    eval.fn = "remote_import_module" =>
        /\ \A i \in TakenFuncs :
              /\ eval.imports[i].module \in DOMAIN eval.modules
              /\ eval.imports[i].field \in DOMAIN eval.modules[eval.imports[i].module]
              /\ eval.modules[eval.imports[i].module][eval.imports[i].field] =
                    remote_call_fn(eval.imports[i].field, eval.imports[i].module,
                                   DeclaredType(eval.imports[i]))
        /\ DOMAIN eval.modules = {eval.imports[i].module : i \in TakenFuncs}
        /\ \A m \in DOMAIN eval.modules :
              DOMAIN eval.modules[m] =
                 {eval.imports[i].field : i \in {j \in TakenFuncs : eval.imports[j].module = m}}

\* C11 amended: every function import (m, f) has the entry f in the host
\* module m, a remote host function for (m, f) whose signature is the declared
\* function type of the last function import named (m, f); one host module
\* per module name, and no entry for an import that is no function
C11_ImportsBoundByName ==
    eval.fn = "remote_import_module" =>
        /\ \A i \in TakenFuncs :
              /\ eval.imports[i].module \in DOMAIN eval.modules
              /\ eval.imports[i].field \in DOMAIN eval.modules[eval.imports[i].module]
              /\ eval.modules[eval.imports[i].module][eval.imports[i].field] =
                    remote_call_fn(eval.imports[i].field, eval.imports[i].module,
                                   DeclaredType(eval.imports[LastNamed(i)]))
        /\ DOMAIN eval.modules = {eval.imports[i].module : i \in TakenFuncs}
        /\ \A m \in DOMAIN eval.modules :
              DOMAIN eval.modules[m] =
                 {eval.imports[i].field : i \in {j \in TakenFuncs : eval.imports[j].module = m}}

\* the loop is over an import section with two functions of one module, a
\* function of another and the same name imported twice with two types
C11_Witness ==
    /\ eval.fn = "remote_import_module"
    /\ eval.i > Len(eval.imports)
    /\ Len(eval.imports) = MaxImports
    /\ \E i, j \in TakenFuncs :
          /\ i < j
          /\ eval.imports[i].module = eval.imports[j].module
          /\ eval.imports[i].field = eval.imports[j].field
          /\ DeclaredType(eval.imports[i]) # DeclaredType(eval.imports[j])
    /\ \E i \in 1..Len(eval.imports) : eval.imports[i].kind = "global"

\* the loop is over an import section that groups two fields under one module
C11_WitnessGrouped ==
    /\ eval.fn = "remote_import_module"
    /\ eval.i > Len(eval.imports)
    /\ \E m \in DOMAIN eval.modules : Cardinality(DOMAIN eval.modules[m]) = 2
    /\ Cardinality(DOMAIN eval.modules) = 2

\* the module of the Init being handled was loaded
InitLoaded ==
    /\ ntaken > 0
    /\ current.k = "Init"
    /\ HasMain(store)
    /\ store[MaxOf(MainIndex(store))].epoch = epoch
    /\ MainBytes(store) = current.bytes

\* C12: the Init of a module that loads is answered with one entry per export
\* of the module, in the order of the export section: Function{name} for a
\* function, Memory{name, memory_size} with the current length of the memory
\* for a memory, whatever kinds of entity the module exports
C12_InitEnumeratesExports ==
    InitLoaded =>
        /\ pc # "panicked"
        /\ nreturned = ntaken
        /\ returned.req = current
        /\ returned.resp.k = "Init"
        /\ Len(returned.resp.exports) = Len(ModuleOf(current.bytes).exports)
        /\ \A i \in 1..Len(ModuleOf(current.bytes).exports) :
              LET e == ModuleOf(current.bytes).exports[i]
                  x == returned.resp.exports[i]
              IN  /\ x.name = e.name
                  /\ e.kind = "func" => x.kind = "Function"
                  /\ e.kind = "memory" => x.kind = "Memory" /\ x.memory_size = Len(memory)

(***************************************************************************)
(* The lookups of module instances by name (module.rs), over the defined   *)
(* and host instances of bounded size.  A handle stands for the address or *)
(* the shared cell the lookup hands out.                                   *)
(***************************************************************************)
MaxExports == 2

Kinds == {"function", "global", "table", "memory"}

ExportNames == {"a", "b"}

\* a name no instance of the inputs exports
Missing == "c"

Handles == {0, 1}

Some(x) == <<x>>

None == <<>>

\* DefinedModuleError::TypeMismatch and HostModuleError::TypeMismatch
TypeMismatch(expected, actual) == [expected |-> expected, actual |-> actual]

\* an ExportInstance: its name and its ExternalValue, whose ty() is the kind
ExportInstance(n, k, h) == [name |-> n, kind |-> k, addr |-> h]

ExportInstances == {ExportInstance(n, k, h) : n \in ExportNames, k \in Kinds, h \in Handles}

\* a lookup that finds the last export of the name
exported_by_name_last(exports, name) ==
    LET idx == {i \in 1..Len(exports) : exports[i].name = name}
    IN  IF idx = {} THEN None ELSE Some(exports[MaxOf(idx)])

MinOf(S) == CHOOSE x \in S : \A y \in S : x <= y

\* the first export of the name, if any
exported_by_name(exports, name) ==
    LET idx == {i \in 1..Len(exports) : exports[i].name = name}
    IN  IF idx = {} THEN None ELSE Some(exports[MinOf(idx)])

exported_global(exports, name) ==
    LET export == exported_by_name(exports, name)
    IN  IF export = None THEN Ok(None)
        ELSE IF export[1].kind = "global" THEN Ok(Some(export[1].addr))
        ELSE Err(TypeMismatch("global", export[1].kind))

exported_func(exports, name) ==
    LET export == exported_by_name(exports, name)
    IN  IF export = None THEN Ok(None)
        ELSE IF export[1].kind = "function" THEN Ok(Some(export[1].addr))
        ELSE Err(TypeMismatch("function", export[1].kind))

exported_table(exports, name) ==
    LET export == exported_by_name(exports, name)
    IN  IF export = None THEN Ok(None)
        ELSE IF export[1].kind = "table" THEN Ok(Some(export[1].addr))
        ELSE Err(TypeMismatch("table", export[1].kind))

exported_memory(exports, name) ==
    LET export == exported_by_name(exports, name)
    IN  IF export = None THEN Ok(None)
        ELSE IF export[1].kind = "memory" THEN Ok(Some(export[1].addr))
        ELSE Err(TypeMismatch("memory", export[1].kind))

\* the fields a host module registers: field -> kind and handle
Registrations ==
    UNION {[S -> [kind : Kinds, addr : Handles]] : S \in SUBSET ExportNames}

\* the map of one kind of a host module instance
KindMap(reg, k) ==
    [n \in {f \in DOMAIN reg : reg[f].kind = k} |-> reg[n].addr]

\* HostModuleInstance::new over the maps of a registration
HostModuleInstance(reg) ==
    [funcs   |-> KindMap(reg, "function"),
     globals |-> KindMap(reg, "global"),
     tables  |-> KindMap(reg, "table"),
     mems    |-> KindMap(reg, "memory")]

\* HashMap::get
Get(map, name) == IF name \in DOMAIN map THEN Some(map[name]) ELSE None

global_by_name(host, name) == Ok(Get(host.globals, name))

func_by_name(host, name) == Get(host.funcs, name)

table_by_name(host, name) == Ok(Get(host.tables, name))

memory_by_name(host, name) == Ok(Get(host.mems, name))

\* the place of a result before the lookup is called
NoResult == Ok(None)

\* the lookup was called
Called == eval.kind # ""

\* two results are the same
Same(r, q) == r.ok = q.ok /\ r.val = q.val

InitLookup ==
    /\ InitQuiet
    /\ \/ \E exports \in SeqsUpTo(ExportInstances, MaxExports) :
             eval = [fn |-> "defined", instance |-> exports, before |-> exports,
                     kind |-> "", name |-> "", result |-> NoResult]
       \/ \E reg \in Registrations :
             eval = [fn |-> "host", instance |-> HostModuleInstance(reg), before |-> reg,
                     kind |-> "", name |-> "", result |-> NoResult]

\* a lookup of kind k for name returned result; it has &self
Looked(k, name, result) ==
    /\ ~Called
    /\ eval' = [eval EXCEPT !.kind = k, !.name = name, !.result = result]
    /\ UNCHANGED session

ExportedGlobal ==
    \E name \in ExportNames \cup {Missing} :
        /\ eval.fn = "defined"
        /\ Looked("global", name, exported_global(eval.instance, name))

ExportedFunc ==
    \E name \in ExportNames \cup {Missing} :
        /\ eval.fn = "defined"
        /\ Looked("function", name, exported_func(eval.instance, name))

ExportedTable ==
    \E name \in ExportNames \cup {Missing} :
        /\ eval.fn = "defined"
        /\ Looked("table", name, exported_table(eval.instance, name))

ExportedMemory ==
    \E name \in ExportNames \cup {Missing} :
        /\ eval.fn = "defined"
        /\ Looked("memory", name, exported_memory(eval.instance, name))

GlobalByName ==
    \E name \in ExportNames \cup {Missing} :
        /\ eval.fn = "host"
        /\ Looked("global", name, global_by_name(eval.instance, name))

\* func_by_name gives an Option, no Result
FuncByName ==
    \E name \in ExportNames \cup {Missing} :
        /\ eval.fn = "host"
        /\ Looked("function", name, Ok(func_by_name(eval.instance, name)))

TableByName ==
    \E name \in ExportNames \cup {Missing} :
        /\ eval.fn = "host"
        /\ Looked("table", name, table_by_name(eval.instance, name))

MemoryByName ==
    \E name \in ExportNames \cup {Missing} :
        /\ eval.fn = "host"
        /\ Looked("memory", name, memory_by_name(eval.instance, name))

NextLookup ==
    \/ ExportedGlobal
    \/ ExportedFunc
    \/ ExportedTable
    \/ ExportedMemory
    \/ GlobalByName
    \/ FuncByName
    \/ TableByName
    \/ MemoryByName

SpecLookup == InitLookup /\ [][NextLookup]_vars

\* the exports of the looked-up name, by position
NamedExports == {i \in 1..Len(eval.before) : eval.before[i].name = eval.name}

\* C13: a lookup exported_K(name) on a defined module instance gives
\* Ok(Some(handle of the first export named name)) when that export is of kind
\* K, Ok(None) when no export has the name, TypeMismatch(K, actual kind) when
\* the first export of the name is of another kind, and leaves the instance
\* as it was
C13_DefinedLookup ==
    (eval.fn = "defined" /\ Called) =>
        /\ eval.instance = eval.before
        /\ IF NamedExports = {} THEN Same(eval.result, Ok(None))
           ELSE LET first == eval.before[MinOf(NamedExports)]
                IN  IF first.kind = eval.kind
                    THEN Same(eval.result, Ok(Some(first.addr)))
                    ELSE Same(eval.result, Err(TypeMismatch(eval.kind, first.kind)))

\* a lookup found two exports of its name, the first of another kind
C13_Witness ==
    /\ eval.fn = "defined"
    /\ Called
    /\ Cardinality(NamedExports) = 2
    /\ eval.before[1].kind # eval.kind
    /\ eval.before[2].kind = eval.kind
    /\ Same(eval.result, Err(TypeMismatch(eval.kind, eval.before[1].kind)))

\* a lookup found its export, the first of two of the name and kind
C13_WitnessFound ==
    /\ eval.fn = "defined"
    /\ Called
    /\ Cardinality(NamedExports) = 2
    /\ eval.before[1].addr # eval.before[2].addr
    /\ Same(eval.result, Ok(Some(eval.before[1].addr)))

\* a lookup found no export of the name in an instance that has exports
C13_WitnessNone ==
    /\ eval.fn = "defined"
    /\ Called
    /\ eval.before # <<>>
    /\ Same(eval.result, Ok(None))

\* C14: a lookup of kind K on a host module for a field the module registers
\* under another kind reports TypeMismatch(K, actual kind)
C14_HostLookupTypeMismatch ==
    (/\ eval.fn = "host"
     /\ Called
     /\ eval.name \in DOMAIN eval.before
     /\ eval.before[eval.name].kind # eval.kind) =>
        Same(eval.result, Err(TypeMismatch(eval.kind, eval.before[eval.name].kind)))

(***************************************************************************)
(* HostFuncBody::call (host.rs) over the stores of a few modules.  A       *)
(* module has no memory or one memory 0, which it defines or imports from  *)
(* a module loaded before it; a defined memory instance is a shared cell   *)
(* of bytes.  The host callable looks at ctx.mem, may write one byte       *)
(* through it, and returns Ok or a trap.                                   *)
(***************************************************************************)
MaxModules == 3

CellSize == 2

ModuleIndexes == 0..(MaxModules - 1)

\* the memory instances of a module: none, a defined one, or an import
NoMemory == <<>>

DefinedMemory(c) == <<[kind |-> "defined", cell |-> c, from |-> 0]>>

ExternalMemory(m) == <<[kind |-> "external", cell |-> 0, from |-> m]>>

\* the memory lists module mi may have when the modules before it have mems
MemoriesOf(mems, mi) ==
    {NoMemory, DefinedMemory(mi)}
    \cup {ExternalMemory(m) : m \in {j \in 0..(mi - 1) : mems[j] # NoMemory}}

RECURSIVE StoresFrom(_, _)
\* the stores that extend mems, defined on the modules below mi
StoresFrom(mems, mi) ==
    IF mi = MaxModules THEN {mems}
    ELSE UNION {StoresFrom([j \in 0..mi |-> IF j = mi THEN x ELSE mems[j]], mi + 1) :
                   x \in MemoriesOf(mems, mi)}

\* the bytes of the cells when the store is built: cell c holds c everywhere
InitialCells == [c \in ModuleIndexes |-> [i \in 1..CellSize |-> c]]

\* what a host callable does with its context: the byte it writes, if any,
\* and what it returns
HostCodes ==
    {[write |-> w, ret |-> r] :
        w \in {<<>>} \cup {<<k, 9>> : k \in 1..CellSize}, r \in {"ok", "trap"}}

\* (self.code)(param, results, &mut ctx, store) on the slice mem
RunCode(code, mem) ==
    [mem    |-> IF code.write # <<>> /\ code.write[1] <= Len(mem)
                THEN [mem EXCEPT ![code.write[1]] = code.write[2]]
                ELSE mem,
     seen   |-> mem,
     result |-> code.ret]

\* store.memory_count(module_index)
memory_count(mems, module_index) == Len(mems[module_index])

RECURSIVE resolve_memory_instance(_, _)
\* the cell of the defined instance behind a memory instance
resolve_memory_instance(mems, inst) ==
    IF inst.kind = "defined" THEN inst.cell
    ELSE resolve_memory_instance(mems, mems[inst.from][1])

\* a call that always takes the memory of module 0
call_module0(code, mems, cells, module_index) ==
    IF memory_count(mems, 0) > 0
    THEN LET cell == resolve_memory_instance(mems, mems[0][1])
             run  == RunCode(code, cells[cell])
         IN  [cells |-> [cells EXCEPT ![cell] = run.mem], seen |-> <<run.seen>>,
              result |-> run.result]
    ELSE LET run == RunCode(code, <<>>)
         IN  [cells |-> cells, seen |-> <<run.seen>>, result |-> run.result]

\* HostFuncBody::call: the cells after the call, the slices the callable was
\* invoked with, and the result of call
call(code, mems, cells, module_index) ==
    IF memory_count(mems, module_index) > 0
    THEN LET cell == resolve_memory_instance(mems, mems[module_index][1])
             run  == RunCode(code, cells[cell])
         IN  [cells |-> [cells EXCEPT ![cell] = run.mem], seen |-> <<run.seen>>,
              result |-> run.result]
    ELSE LET run == RunCode(code, <<>>)
         IN  [cells |-> cells, seen |-> <<run.seen>>, result |-> run.result]

InitHostCall ==
    /\ InitQuiet
    /\ \E mems \in StoresFrom([j \in {} |-> NoMemory], 0) :
          eval = [fn |-> "call", mems |-> mems, cells |-> InitialCells,
                  module_index |-> 0, code |-> [write |-> <<>>, ret |-> "ok"],
                  seen |-> <<>>, result |-> "", calls |-> 0]

\* a function of module module_index calls the host function
HostCall ==
    \E module_index \in ModuleIndexes, code \in HostCodes :
        /\ eval.fn = "call"
        /\ eval.calls = 0
        /\ LET r == call(code, eval.mems, eval.cells, module_index)
           IN  eval' = [eval EXCEPT !.cells = r.cells, !.seen = r.seen,
                                    !.result = r.result, !.code = code,
                                    !.module_index = module_index, !.calls = 1]
        /\ UNCHANGED session

NextHostCall == HostCall

SpecHostCall == InitHostCall /\ [][NextHostCall]_vars

\* the calling module has a memory 0
CallerHasMemory == eval.mems[eval.module_index] # NoMemory

\* the cell of the defined instance behind memory 0 of the calling module
CallerCell == resolve_memory_instance(eval.mems, eval.mems[eval.module_index][1])

\* C15: call invokes the callable once, with the bytes of memory 0 of the
\* calling module, followed through imports to its defined instance, or with
\* an empty slice when the module has no memory; what the callable writes is
\* in that memory after the call and in no other; call returns what the
\* callable returned
C15_HostCallContext ==
    (eval.fn = "call" /\ eval.calls = 1) =>
        /\ Len(eval.seen) = 1
        /\ eval.result = eval.code.ret
        /\ IF CallerHasMemory
           THEN /\ eval.seen[1] = InitialCells[CallerCell]
                /\ eval.cells =
                      [InitialCells EXCEPT
                          ![CallerCell] = RunCode(eval.code, InitialCells[CallerCell]).mem]
           ELSE /\ eval.seen[1] = <<>>
                /\ eval.cells = InitialCells

\* the last module imports its memory from a module that imports it from
\* the first, and the callable wrote to it and trapped
C15_Witness ==
    /\ eval.fn = "call"
    /\ eval.calls = 1
    /\ eval.module_index = 2
    /\ eval.mems[2] = ExternalMemory(1)
    /\ eval.mems[1] = ExternalMemory(0)
    /\ eval.cells[0] # InitialCells[0]
    /\ eval.result = "trap"

\* the calling module has no memory while the others have
C15_WitnessEmpty ==
    /\ eval.fn = "call"
    /\ eval.calls = 1
    /\ ~CallerHasMemory
    /\ \E m \in ModuleIndexes : eval.mems[m] # NoMemory
    /\ eval.code.write # <<>>
    /\ eval.seen = <<<<>>>>

(***************************************************************************)
(* BrTableData::from_payload (inst.rs) over the br_table operators of      *)
(* bounded length: the loop takes one target after the other.              *)
(***************************************************************************)
MaxTargets == 3

Depths == 0..2

\* the decoded target lists: the entries of the table and the default
TargetLists == UNION {[1..k -> Depths] : k \in 1..MaxTargets}

\* table.targets(): each depth with the flag that marks the default, which
\* the reader sets on the last entry; the entry bad, if any, is a read error
targets(list, bad) ==
    [i \in 1..Len(list) |->
        IF i = bad THEN [ok |-> FALSE, depth |-> 0, is_default |-> FALSE]
        ELSE [ok |-> TRUE, depth |-> list[i], is_default |-> (i = Len(list))]]

\* a loop body that pushes the default too
br_target_all(acc, target) ==
    IF target.is_default
    THEN [ids |-> Append(acc.ids, target.depth), default |-> Some(target.depth)]
    ELSE [ids |-> Append(acc.ids, target.depth), default |-> acc.default]

\* the body of the loop over the targets, after `target?`
br_target(acc, target) ==
    IF target.is_default
    THEN [ids |-> acc.ids, default |-> Some(target.depth)]
    ELSE [ids |-> Append(acc.ids, target.depth), default |-> acc.default]

BrTableData(table, default) == [table |-> table, default |-> default]

InitBrTable ==
    /\ InitQuiet
    /\ \E list \in TargetLists : \E bad \in 0..Len(list) :
          eval = [fn |-> "from_payload", list |-> list, targets |-> targets(list, bad),
                  i |-> 1, acc |-> [ids |-> <<>>, default |-> None],
                  done |-> FALSE, result |-> Err("")]

\* one turn of the loop: a read error ends from_payload
BrTableTarget ==
    /\ eval.fn = "from_payload"
    /\ ~eval.done
    /\ eval.i <= Len(eval.targets)
    /\ IF eval.targets[eval.i].ok
       THEN eval' = [eval EXCEPT !.acc = br_target(@, eval.targets[eval.i]), !.i = @ + 1]
       ELSE eval' = [eval EXCEPT !.done = TRUE, !.result = Err("BinaryReaderError")]
    /\ UNCHANGED session

\* after the loop: default.unwrap(), which panics on None, and the BrTableData
BrTableBuild ==
    /\ eval.fn = "from_payload"
    /\ ~eval.done
    /\ eval.i > Len(eval.targets)
    /\ eval' = [eval EXCEPT !.done = TRUE,
                            !.result = IF eval.acc.default = None THEN Err("panic")
                                       ELSE Ok(BrTableData(eval.acc.ids,
                                                           eval.acc.default[1]))]
    /\ UNCHANGED session

NextBrTable ==
    \/ BrTableTarget
    \/ BrTableBuild

SpecBrTable == InitBrTable /\ [][NextBrTable]_vars

\* from_payload returned a BrTableData
Decoded == eval.fn = "from_payload" /\ eval.done /\ eval.result.ok

\* C16: the default of a decoded br_table is the last entry of its target
\* list and the table is the entries before it, in their order
C16_DefaultIsLastTarget ==
    Decoded =>
        /\ eval.result.val.default = eval.list[Len(eval.list)]
        /\ Append(eval.result.val.table, eval.result.val.default) = eval.list
        /\ Len(eval.result.val.table) = Len(eval.list) - 1

\* a list of the greatest length was decoded, whose default differs from the
\* entries of the table
C16_Witness ==
    /\ Decoded
    /\ Len(eval.list) = MaxTargets
    /\ \A i \in 1..(Len(eval.list) - 1) : eval.list[i] # eval.list[Len(eval.list)]
    /\ eval.list[1] # eval.list[2]

\* a br_table with the default alone was decoded
C16_WitnessDefaultOnly == Decoded /\ Len(eval.list) = 1 /\ eval.result.val.table = <<>>

(***************************************************************************)
(* transform_inst (inst.rs) over the function bodies of bounded length.    *)
(* A body is the sequence of its operators with their sizes in bytes; the  *)
(* lifting loop calls transform_inst until the reader is at its end or a   *)
(* call fails.  usize is scaled down to UsizeBits bits.                    *)
(***************************************************************************)
MaxOps == 3

UsizeBits == 4

UsizeMax == Pow2(UsizeBits) - 1

\* the operators of the inputs: Nop and End decode and convert, the payload
\* of BrTable decodes but fails to convert, Unknown fails to decode
Operators ==
    {[kind |-> k, size |-> n] : k \in {"Nop", "End", "BrTable", "Unknown"}, n \in {1, 2}}

\* where the payload of a body may start in the module
BodyStarts == {0, 2}

\* the values of base_offset
BaseOffsets == 0..3

RECURSIVE SizeOf(_, _)
\* the bytes of the first n operators of a body
SizeOf(body, n) == IF n = 0 THEN 0 ELSE SizeOf(body, n - 1) + body[n].size

\* the byte offset of the operator at position pos
OffsetAt(body, start, pos) == start + SizeOf(body, pos - 1)

\* reader.read_with_offset(): the operator and its offset, or a read error
read_with_offset(body, start, pos) ==
    IF body[pos].kind = "Unknown" THEN Err("BinaryReaderError")
    ELSE Ok([op |-> body[pos], offset |-> OffsetAt(body, start, pos)])

\* TryFrom<Operator> for InstructionKind: the variant of the same name, from
\* the payload that from_payload converts
try_from(op) ==
    IF op.kind = "BrTable" THEN Err("BinaryReaderError") ELSE Ok(op.kind)

\* an offset that is not made relative
relative_offset_abs(offset, base_offset, overflow) == Ok(offset)

\* offset - base_offset on usize: past zero the subtraction panics where
\* overflow is checked and wraps where it is not
relative_offset(offset, base_offset, overflow) ==
    IF offset >= base_offset THEN Ok(offset - base_offset)
    ELSE IF overflow = "wrap" THEN Ok(offset - base_offset + UsizeMax + 1)
    ELSE Err("panic")

Instruction(kind, offset) == [kind |-> kind, offset |-> offset]

\* transform_inst on the reader at pos: Ok(Instruction), the error of the
\* read or of the conversion, or the panic of the subtraction
transform_inst(body, start, pos, base_offset, overflow) ==
    LET read == read_with_offset(body, start, pos)
    IN  IF ~read.ok THEN read
        ELSE LET kind == try_from(read.val.op)
             IN  IF ~kind.ok THEN kind
                 ELSE LET offset == relative_offset(read.val.offset, base_offset, overflow)
                      IN  IF ~offset.ok THEN offset
                          ELSE Ok(Instruction(kind.val, offset.val))

InitLift ==
    /\ InitQuiet
    /\ \E body \in SeqsUpTo(Operators, MaxOps), start \in BodyStarts,
          base_offset \in BaseOffsets :
          eval = [fn |-> "transform_inst", body |-> body, start |-> start,
                  base_offset |-> base_offset, pos |-> 1, insts |-> <<>>,
                  status |-> "reading"]

\* the lifting loop calls transform_inst on the next operator
TransformInst ==
    /\ eval.fn = "transform_inst"
    /\ eval.status = "reading"
    /\ eval.pos <= Len(eval.body)
    /\ \E overflow \in {"panic", "wrap"} :
          LET r == transform_inst(eval.body, eval.start, eval.pos, eval.base_offset,
                                  overflow)
          IN  IF r.ok
              THEN eval' = [eval EXCEPT !.insts = Append(@, r.val), !.pos = @ + 1]
              ELSE IF r.val = "panic"
              THEN eval' = [eval EXCEPT !.status = "panicked"]
              ELSE eval' = [eval EXCEPT !.status = "error"]
    /\ UNCHANGED session

NextLift == TransformInst

SpecLift == InitLift /\ [][NextLift]_vars

\* the operator decodes and converts
Lifts(op) == op.kind \notin {"BrTable", "Unknown"}

\* what all calls have in common: each call that returned an Instruction
\* took one operator and gave one Instruction of its kind, and a call that
\* failed gave none for an operator that does not decode or convert
OneInstructionPerOperator ==
    /\ eval.status = "reading" => Len(eval.insts) = eval.pos - 1
    /\ \A k \in 1..Len(eval.insts) :
          Lifts(eval.body[k]) /\ eval.insts[k].kind = eval.body[k].kind
    /\ eval.status = "error" =>
          /\ Len(eval.insts) = eval.pos - 1
          /\ ~Lifts(eval.body[eval.pos])

\* with base_offset at the start of the body, the offsets are not negative
\* and grow with the index
BodyRelative ==
    eval.base_offset = eval.start =>
        /\ eval.status # "panicked"
        /\ \A k \in 1..Len(eval.insts) :
              /\ eval.insts[k].offset >= 0
              /\ eval.insts[k].offset = SizeOf(eval.body, k - 1)
        /\ \A j, k \in 1..Len(eval.insts) :
              j < k => eval.insts[j].offset < eval.insts[k].offset

\* C17 as stated: a call takes one operator and gives one Instruction of its
\* kind whose offset is the operator's offset less base_offset; from the start
\* of the body the offsets are not negative and increase; an error of the
\* read or the conversion gives an error and no Instruction
C17_Original ==
    eval.fn = "transform_inst" =>
        /\ OneInstructionPerOperator
        /\ eval.status # "panicked"
        /\ \A k \in 1..Len(eval.insts) :
              eval.insts[k].offset =
                 OffsetAt(eval.body, eval.start, k) - eval.base_offset
        /\ BodyRelative

\* C17 amended: a call takes one operator and gives one Instruction of its
\* kind whose offset is the operator's offset less base_offset when
\* base_offset does not exceed the operator's offset (otherwise the
\* subtraction overflows: the call panics or the offset wraps); from the start
\* of the body the offsets are not negative and increase; an error of the read
\* or the conversion gives an error and no Instruction
C17_OffsetRelativeToBase ==
    eval.fn = "transform_inst" =>
        /\ OneInstructionPerOperator
        /\ eval.status = "panicked" =>
              eval.base_offset > OffsetAt(eval.body, eval.start, eval.pos)
        /\ \A k \in 1..Len(eval.insts) :
              IF eval.base_offset <= OffsetAt(eval.body, eval.start, k)
              THEN eval.insts[k].offset =
                      OffsetAt(eval.body, eval.start, k) - eval.base_offset
              ELSE eval.insts[k].offset =
                      OffsetAt(eval.body, eval.start, k) - eval.base_offset + UsizeMax + 1
        /\ BodyRelative

\* a body of the greatest length was lifted from its start, which is not the
\* start of the module, with operators of two sizes
C17_Witness ==
    /\ eval.fn = "transform_inst"
    /\ eval.status = "reading"
    /\ eval.base_offset = eval.start
    /\ eval.start > 0
    /\ Len(eval.insts) = MaxOps
    /\ eval.body[1].size # eval.body[2].size

\* a call failed on the conversion after an Instruction was given
C17_WitnessError ==
    /\ eval.fn = "transform_inst"
    /\ eval.status = "error"
    /\ Len(eval.insts) = 1
    /\ eval.body[2].kind = "BrTable"

\* base_offset lies past the first operator and before the second
C17_WitnessOverflow ==
    /\ eval.fn = "transform_inst"
    /\ Len(eval.insts) = 2
    /\ eval.base_offset > OffsetAt(eval.body, eval.start, 1)
    /\ eval.base_offset <= OffsetAt(eval.body, eval.start, 2)

\* the next step of the executor is a host call
AtHostCall == pc = "exec" /\ ~AtEnd(proc) /\ Instr(proc).op = "host"

\* C18: the lock of the sink is held only while the sender thread sends one
\* CallHost; it is free when the executor waits on the inbound channel and
\* free whenever a host call comes to take it, so that no host call waits
\* for the lock
C18_SinkLockOnlyWhileSending ==
    /\ sinkLock = "sender" => pc = "sending"
    /\ pc = "await" => sinkLock = "free"
    /\ AtHostCall => sinkLock = "free"

\* the executor waits for the reply to the second host call of an invocation
C18_Witness ==
    /\ pc = "await"
    /\ inv.replies = 1
    /\ Len(InvCalls) = 2
    /\ sinkLock = "free"

\* the sender thread holds the lock while a reply of the client is queued
C18_WitnessHeld == pc = "sending" /\ sinkLock = "sender" /\ inbound # <<>>

\* the host call that waits takes a request that is no CallResult
TakesStrayRequest ==
    /\ pc = "await"
    /\ inbound # <<>>
    /\ Received(Head(inbound)) = "unreachable"
    /\ inbound' = Tail(inbound)
    /\ pc' # "await"

\* C19: when the host call that waits for its reply takes a request other
\* than CallResult, the proxy does not crash: the call ends in a trap or the
\* message is rejected, which the one Error response of the invocation
\* reports, and the session goes on
C19_StrayRequestDoesNotCrash ==
    [][TakesStrayRequest =>
          /\ pc' # "panicked"
          /\ nreturned' = nreturned + 1
          /\ returned'.req = current
          /\ returned'.resp.k = "Error"]_vars

\* a LoadMemory is taken from the inbound channel
TakesLoadMemory ==
    /\ pc = "idle"
    /\ inbound # <<>>
    /\ Head(inbound).k = "LoadMemory"
    /\ ntaken' = ntaken + 1

\* C20: LoadMemory{offset, length} is answered with the length bytes of the
\* memory from offset on and changes neither the memory nor the store; past
\* the end of the memory it is answered with an Error response and the
\* session goes on
C20_LoadMemoryInBounds ==
    [][TakesLoadMemory =>
          LET o == Head(inbound).offset
              l == Head(inbound).length
          IN  /\ memory' = memory
              /\ store' = store
              /\ pc' # "panicked"
              /\ nreturned' = nreturned + 1
              /\ returned'.req = Head(inbound)
              /\ IF HasMemory /\ o + l <= Len(memory)
                 THEN /\ returned'.resp.k = "LoadMemoryResult"
                      /\ Len(returned'.resp.bytes) = l
                      /\ \A i \in 1..l : returned'.resp.bytes[i] = memory[o + i]
                 ELSE returned'.resp.k = "Error"]_vars

\* the sender thread of a host call panics: on the error of the sink, or on
\* the poisoned lock of the sink
SenderPanics ==
    \/ pc = "sending" /\ ~sinkOk /\ pc' # pc
    \/ AtHostCall /\ sinkPoisoned /\ pc' # pc

\* the errors the join reports for a sender thread that panicked
SenderErrors ==
    {ErrorResp("HostFunctionError: sender panicked"),
     ErrorResp("HostFunctionError: poisoned lock")}

\* C21: when the send of a CallHost fails, the host function returns a
\* HostFunctionError trap: it does not wait on the inbound channel, takes no
\* message from it and puts no CallHost on the sink, and the invocation is
\* answered with the error; the lock stays poisoned, so that every later
\* host call of the session fails in the same way
C21_FailedSendTraps ==
    [][/\ SenderPanics =>
             /\ inbound' = inbound
             /\ inv'.replies = inv.replies
             /\ ~inv'.active
             /\ pc' \in {"idle", "closed"}
             /\ outbound' = outbound
             /\ nreturned' = nreturned + 1
             /\ returned'.req = current
             /\ returned'.resp \in SenderErrors
             /\ sinkPoisoned'
       /\ sinkPoisoned => sinkPoisoned'
       /\ (sinkPoisoned /\ AtHostCall /\ pc' # pc) =>
             returned'.resp = ErrorResp("HostFunctionError: poisoned lock")]_vars

\* a later host call of the session failed on the poisoned lock, while a
\* message of the client waits in the inbound channel
C21_Witness ==
    /\ sinkPoisoned
    /\ inv.req = ntaken
    /\ nreturned = ntaken
    /\ returned.resp = ErrorResp("HostFunctionError: poisoned lock")
    /\ inv.replies = 0
    /\ inbound # <<>>

\* the send of the second CallHost of an invocation failed after the first
\* was answered
C21_WitnessSend ==
    /\ sinkPoisoned
    /\ inv.req = ntaken
    /\ nreturned = ntaken
    /\ returned.resp = ErrorResp("HostFunctionError: sender panicked")
    /\ inv.replies = 1
    /\ Len(InvCalls) = 1

\* handle_request returns the Error response of an Init
InitFails ==
    /\ pc = "idle"
    /\ inbound # <<>>
    /\ Head(inbound).k = "Init"
    /\ nreturned' = nreturned + 1
    /\ returned'.resp.k = "Error"

\* a CallExported is taken when the last request, an Init, was answered
\* with an Error response
CallAfterFailedInit ==
    /\ pc = "idle"
    /\ nreturned = ntaken
    /\ returned.req.k = "Init"
    /\ returned.resp.k = "Error"
    /\ inbound # <<>>
    /\ Head(inbound).k = "CallExported"
    /\ ntaken' = ntaken + 1

\* C22: an Init that fails after the reset of the store returns its Error
\* response with the store reset: it holds no module loaded before and no main
\* module, at most the remote host modules of the failed Init; a CallExported
\* that follows fails and runs nothing
C22_FailedInitLosesModule ==
    [][/\ InitFails =>
             /\ ~HasMain(store')
             /\ memory' = <<>>
             /\ \A i \in 1..Len(store') :
                   /\ store'[i].kind = "host"
                   /\ store'[i].epoch = epoch + 1
                   /\ store'[i].name \in DOMAIN remote_import_module(Head(inbound).bytes)
       /\ CallAfterFailedInit =>
             /\ returned'.req = Head(inbound)
             /\ returned'.resp = ErrorResp("function not found")
             /\ pc' # "exec"
             /\ proc' = NoProc
             /\ store' = store]_vars

\* a module was loaded and its export trap ran; the next Init failed at the
\* load, after its host module was registered; the export is called again
\* and is not found
C22_Witness ==
    /\ inv.fn = "trap"
    /\ inv.req = 2
    /\ ntaken = 4
    /\ nreturned = 4
    /\ epoch = 2
    /\ returned.req = CallExported("trap", <<>>)
    /\ returned.resp = ErrorResp("function not found")
    /\ ~HasMain(store)
    /\ Len(store) = 1

\* the Init of bytes that do not parse failed and left the store empty where
\* a module was loaded
C22_WitnessEmpty ==
    /\ inv.fn = "trap"
    /\ inv.req = 2
    /\ epoch = 2
    /\ current = InitReq("X")
    /\ nreturned = ntaken
    /\ returned.resp.k = "Error"
    /\ store = <<>>

====
